---- MODULE Spec2Model ----
(***************************************************************************)
(* A model of the item catalog server of go/app/main.go: the add-item      *)
(* handler (image store write, category resolve-or-create, item insert,    *)
(* commit) run by concurrent requests against one SQLite database and one  *)
(* image directory, and the read handlers get-image, get-item, list-items. *)
(*                                                                         *)
(* Strings that the code inspects character by character (file names,      *)
(* paths, item and category names) are sequences of one-character strings. *)
(* Response messages, which the code only emits, are plain strings.        *)
(***************************************************************************)
EXTENDS Integers, Sequences, FiniteSets, TLC

VARIABLES
    categories,   \* committed rows of table categories, in id order
    items,        \* committed rows of table items, in id order
    fs,           \* the file system: path -> bytes, one entry per existing file
    writer,       \* the call whose transaction holds SQLite's write lock, or 0
    started,      \* number of add-item requests received so far
    pc,           \* per call: position in addItem
    req,          \* per call: the form values and the image part
    hashedImage,  \* per call: getHashedImage's result
    categoryID,   \* per call: the local variable categoryID
    txn,          \* per call: what its open transaction has done
    resp,         \* per call: the response bodies written to the client
    fail,         \* per call: the step that failed, or "" while none has
    offset,       \* per call: the bytes io.Copy has written to its file
    imgReq,       \* get-image between os.Stat and c.File
    reply         \* the response of the last read request, none while one is served

vars == <<categories, items, fs, writer, started, pc, req, hashedImage,
          categoryID, txn, resp, fail, offset, imgReq, reply>>

dbVars == <<categories, items, writer>>
readVars == <<imgReq, reply>>

----------------------------------------------------------------------------
(* Bounds of the model *)

\* add-item requests received in one behaviour
MaxRequests == 3

\* the requests that are in their handler at the same time
Calls == {1, 2}

----------------------------------------------------------------------------
(* Program constants *)

StatusOK == 200
StatusBadRequest == 400
StatusNotFound == 404
StatusInternalServerError == 500

ImgDir == <<"i", "m", "a", "g", "e", "s">>
DotJpg == <<".", "j", "p", "g">>
DefaultJpg == <<"d", "e", "f", "a", "u", "l", "t", ".", "j", "p", "g">>

----------------------------------------------------------------------------
(* Strings *)

HasSuffix(s, suffix) ==
    /\ Len(s) >= Len(suffix)
    /\ SubSeq(s, Len(s) - Len(suffix) + 1, Len(s)) = suffix

HexDigits ==
    <<"0", "1", "2", "3", "4", "5", "6", "7",
      "8", "9", "a", "b", "c", "d", "e", "f">>

\* fmt's %x of one byte of a byte slice: two lowercase digits
HexByte(b) == <<HexDigits[(b \div 16) + 1], HexDigits[(b % 16) + 1]>>

RECURSIVE Hex(_)
Hex(bytes) ==
    IF bytes = <<>> THEN <<>> ELSE HexByte(Head(bytes)) \o Hex(Tail(bytes))

RECURSIVE Itoa(_)
Itoa(n) ==
    IF n < 10 THEN <<HexDigits[n + 1]>>
    ELSE Itoa(n \div 10) \o <<HexDigits[(n % 10) + 1]>>

(* path.Join and path.Clean for the relative paths the handlers build *)

RECURSIVE SplitPath(_, _)
SplitPath(s, cur) ==
    IF s = <<>> THEN <<cur>>
    ELSE IF Head(s) = "/" THEN <<cur>> \o SplitPath(Tail(s), <<>>)
    ELSE SplitPath(Tail(s), Append(cur, Head(s)))

RECURSIVE CleanSegs(_, _)
CleanSegs(segs, out) ==
    IF segs = <<>> THEN out
    ELSE LET seg == Head(segs) IN
         IF seg = <<>> \/ seg = <<".">> THEN CleanSegs(Tail(segs), out)
         ELSE IF seg = <<".", ".">>
         THEN IF out # <<>> /\ out[Len(out)] # <<".", ".">>
              THEN CleanSegs(Tail(segs), SubSeq(out, 1, Len(out) - 1))
              ELSE CleanSegs(Tail(segs), Append(out, seg))
         ELSE CleanSegs(Tail(segs), Append(out, seg))

RECURSIVE JoinSegs(_)
JoinSegs(segs) ==
    IF segs = <<>> THEN <<>>
    ELSE IF Len(segs) = 1 THEN Head(segs)
    ELSE Head(segs) \o <<"/">> \o JoinSegs(Tail(segs))

\* each stage is bound to its value, which the next stage reads many times
Clean(p) ==
    CHOOSE cleaned \in
        { IF segs = <<>> THEN <<".">> ELSE JoinSegs(segs) :
             segs \in { CleanSegs(split, <<>>) : split \in {SplitPath(p, <<>>)} } } :
        TRUE

PathJoin(dir, name) ==
    IF name = <<>> THEN Clean(dir) ELSE Clean(dir \o <<"/">> \o name)

----------------------------------------------------------------------------
(* Image store *)

RECURSIVE ByteSum(_, _)
ByteSum(bytes, weight) ==
    IF bytes = <<>> THEN 0
    ELSE (weight * Head(bytes) + ByteSum(Tail(bytes), weight + 1)) % 256

\* crypto/sha256 over the whole stream, abstracted to a two-byte digest that
\* is a function of the bytes alone
Sha256Sum(bytes) == <<ByteSum(bytes, 1), (ByteSum(bytes, 3) + Len(bytes)) % 256>>

HashedName(bytes) == Hex(Sha256Sum(bytes)) \o DotJpg

Exists(p) == p \in DOMAIN fs

WriteFile(p, bytes) == [q \in DOMAIN fs \cup {p} |-> IF q = p THEN bytes ELSE fs[q]]

\* a write through a descriptor opened with O_APPEND: the byte goes to the
\* end of the file, wherever the descriptor's own offset is
WriteAppend(p, k, b) == WriteFile(p, Append(fs[p], b))

\* a write of byte b through a descriptor whose offset is k - 1: the file
\* grows to k bytes when it is shorter, the gap reading as zeros
WriteAt(p, k, b) ==
    LET old == fs[p]
        n == IF k > Len(old) THEN k ELSE Len(old)
    IN  WriteFile(p, [i \in 1 .. n |->
                         IF i = k THEN b ELSE IF i <= Len(old) THEN old[i] ELSE 0])

----------------------------------------------------------------------------
(* Requests *)

Mug == <<"m", "u", "g">>
Cup == <<"c", "u", "p">>
Kitchen == <<"k", "i", "t">>
Toys == <<"t", "o", "y">>

ImageA == <<7, 200>>
ImageB == <<18>>

\* the add-item requests a client sends: complete ones, and ones that lack
\* the name, the category or the image part
Requests ==
    { [name |-> Mug, category |-> Kitchen, hasImage |-> TRUE, image |-> ImageA],
      [name |-> Cup, category |-> Toys, hasImage |-> TRUE, image |-> ImageB],
      [name |-> <<>>, category |-> Kitchen, hasImage |-> TRUE, image |-> ImageB],
      [name |-> Cup, category |-> <<>>, hasImage |-> TRUE, image |-> ImageA],
      [name |-> Mug, category |-> Toys, hasImage |-> FALSE, image |-> <<>>] }

\* the requests that have a name, a category and an image
CompleteRequests ==
    {r \in Requests : r.name # <<>> /\ r.category # <<>> /\ r.hasImage}

NoRequest == [name |-> <<>>, category |-> <<>>, hasImage |-> FALSE, image |-> <<>>]

NoTxn == [open |-> FALSE, read |-> FALSE, stale |-> FALSE,
          newCategories |-> <<>>, newItems |-> <<>>]

NoFail == [step |-> "", kind |-> ""]

----------------------------------------------------------------------------
(* Responses *)

Body(status, message, name) ==
    [status |-> status, message |-> message, name |-> name]

\* parseError: one JSON body with status 500
ParseError(r, message) ==
    Append(r, Body(StatusInternalServerError, message, <<>>))

\* echo's handling of a returned error: a body is written only when the
\* handler has written none
HTTPErrorHandler(r, message) ==
    IF r = <<>> THEN <<Body(StatusInternalServerError, message, <<>>)>> ELSE r

----------------------------------------------------------------------------
(* Database *)

\* a lookup that finds no row, as when it compares the name with another column
RowsNamedNone(table, name) == <<>>

\* the rows a SELECT ... WHERE name = ? finds, in id order
RowsNamed(table, name) ==
    SelectSeq(table, LAMBDA row : row.name = name)

\* the id SQLite gives a new row of a table whose id is its primary key
NextId(table) ==
    IF table = <<>> THEN 1 ELSE table[Len(table)].id + 1

\* a statement of c's transaction that writes needs the write lock, which one
\* connection holds at a time, and a snapshot no other commit has overtaken
CanWrite(c) == writer \in {0, c} /\ ~txn[c].stale

\* the tables a transaction sees: the committed rows and its own
ViewCategories(c) == categories \o txn[c].newCategories
ViewItems(c) == items \o txn[c].newItems

\* a rollback that leaves the category row behind, as when the category is
\* inserted through the database handle instead of the transaction
AfterRollbackKeepingCategories(c) == <<categories \o txn[c].newCategories, items>>

\* tx.Rollback: the committed tables as they are
AfterRollback(c) == <<categories, items>>

\* a commit that leaves the category row out, as when the item alone is
\* written through the transaction
AfterCommitItemsOnly(c) == <<categories, items \o txn[c].newItems>>

\* a commit that writes nothing, as when the transaction was rolled back
\* before tx.Commit and the error of tx.Commit is not looked at
AfterCommitDropped(c) == <<categories, items>>

\* tx.Commit: the transaction's rows join the committed tables
AfterCommit(c) == <<ViewCategories(c), ViewItems(c)>>

\* the snapshots a commit by c overtakes
Overtaken(c) ==
    [d \in Calls |->
        IF d # c /\ txn[d].read THEN [txn[d] EXCEPT !.stale = TRUE] ELSE txn[d]]

----------------------------------------------------------------------------
(* add-item: ServerImpl.addItem and getHashedImage, one action per step *)

ImagePath(c) == PathJoin(ImgDir, hashedImage[c])

\* a handler that removes the image file it stored when it fails
ImagesAfterFailureRemoved(c) == [p \in DOMAIN fs \ {ImagePath(c)} |-> fs[p]]

\* the files a failing call leaves: no error path of addItem or
\* getHashedImage removes or rewrites a file
ImagesAfterFailure(c) == fs

\* a handler that returns without its deferred tx.Rollback
LeaveWithoutRollback(c, step, kind, r) ==
    /\ pc' = [pc EXCEPT ![c] = "done"]
    /\ fail' = [fail EXCEPT ![c] = [step |-> step, kind |-> kind]]
    /\ resp' = [resp EXCEPT ![c] = r]
    /\ fs' = ImagesAfterFailure(c)
    /\ UNCHANGED <<txn, writer, categories, items>>

\* the handler returns: its deferred tx.Rollback runs, the call is over
Leave(c, step, kind, r) ==
    /\ pc' = [pc EXCEPT ![c] = "done"]
    /\ fail' = [fail EXCEPT ![c] = [step |-> step, kind |-> kind]]
    /\ resp' = [resp EXCEPT ![c] = r]
    /\ txn' = [txn EXCEPT ![c] = NoTxn]
    /\ writer' = IF writer = c THEN 0 ELSE writer
    /\ categories' = AfterRollback(c)[1]
    /\ items' = AfterRollback(c)[2]
    /\ fs' = ImagesAfterFailure(c)

\* getHashedImage failed: it has called parseError, and addItem calls it again
LeaveImage(c, step, kind, message) ==
    Leave(c, step, kind,
          ParseError(ParseError(resp[c], message), "Failed to get hashed image"))

\* a request arrives; c.FormValue reads name and category
Receive(c, r) ==
    /\ pc[c] \in {"idle", "done"}
    /\ started < MaxRequests
    /\ started' = started + 1
    /\ pc' = [pc EXCEPT ![c] = "image"]
    /\ req' = [req EXCEPT ![c] = r]
    /\ hashedImage' = [hashedImage EXCEPT ![c] = <<>>]
    /\ categoryID' = [categoryID EXCEPT ![c] = 0]
    /\ resp' = [resp EXCEPT ![c] = <<>>]
    /\ fail' = [fail EXCEPT ![c] = NoFail]
    /\ offset' = [offset EXCEPT ![c] = 0]
    /\ UNCHANGED <<dbVars, fs, txn, readVars>>

\* c.FormFile, imageFile.Open, io.Copy into the hash, src.Seek, fmt.Sprintf
HashImage(c) ==
    /\ pc[c] = "image"
    /\ \/ /\ ~req[c].hasImage
          /\ LeaveImage(c, "image", "missing", "Failed to get image file")
          /\ UNCHANGED <<hashedImage>>
       \/ /\ req[c].hasImage
          /\ \E message \in {"Failed to open image file", "Failed to hash image file"} :
                LeaveImage(c, "image", "io", message)
          /\ UNCHANGED <<hashedImage>>
       \/ /\ req[c].hasImage
          /\ hashedImage' = [hashedImage EXCEPT ![c] = HashedName(req[c].image)]
          /\ pc' = [pc EXCEPT ![c] = "create"]
          /\ UNCHANGED <<dbVars, fs, txn, resp, fail>>
    /\ UNCHANGED <<started, req, categoryID, offset, readVars>>

\* os.Create: the file exists and is empty, whatever it held
CreateImage(c) ==
    /\ pc[c] = "create"
    /\ \/ /\ \E dst \in {ImagePath(c)} : fs' = WriteFile(dst, <<>>)
          /\ pc' = [pc EXCEPT ![c] = "copy"]
          /\ UNCHANGED <<dbVars, txn, resp, fail>>
       \/ LeaveImage(c, "create", "io", "Failed to create image file")
    /\ UNCHANGED <<started, req, hashedImage, categoryID, offset, readVars>>

\* the copy without src.Seek(0, 0): the hash has read src to its end
CopiedWithoutSeek(c) == <<>>

\* what io.Copy(dst, src) writes after src.Seek(0, 0): the whole upload
Copied(c) == req[c].image

\* io.Copy into the file, a chunk at a time: a chunk is written at the
\* descriptor's offset, the end of the upload ends the copy, and a failed copy
\* leaves the chunks it has written
CopyImage(c) ==
    /\ pc[c] = "copy"
    /\ \/ /\ offset[c] < Len(Copied(c))
          /\ \E dst \in {ImagePath(c)} :
                fs' = WriteAt(dst, offset[c] + 1, Copied(c)[offset[c] + 1])
          /\ offset' = [offset EXCEPT ![c] = @ + 1]
          /\ UNCHANGED <<dbVars, pc, txn, resp, fail>>
       \/ /\ offset[c] = Len(Copied(c))
          /\ pc' = [pc EXCEPT ![c] = "begin"]
          /\ UNCHANGED <<dbVars, fs, offset, txn, resp, fail>>
       \/ /\ LeaveImage(c, "copy", "io", "Failed to copy image file")
          /\ UNCHANGED <<offset>>
    /\ UNCHANGED <<started, req, hashedImage, categoryID, readVars>>

\* s.db.Begin
Begin(c) ==
    /\ pc[c] = "begin"
    /\ \/ /\ txn' = [txn EXCEPT ![c] = [NoTxn EXCEPT !.open = TRUE]]
          /\ pc' = [pc EXCEPT ![c] = "query"]
          /\ UNCHANGED <<dbVars, fs, resp, fail>>
       \/ Leave(c, "begin", "io",
                HTTPErrorHandler(resp[c], "Error starting database transaction"))
    /\ UNCHANGED <<started, req, hashedImage, categoryID, offset, readVars>>

\* tx.QueryRow("SELECT id FROM categories WHERE name = ?").Scan
QueryCategory(c) ==
    /\ pc[c] = "query"
    /\ LET rows == RowsNamed(ViewCategories(c), req[c].category) IN
       \/ /\ rows # <<>>
          /\ categoryID' = [categoryID EXCEPT ![c] = rows[1].id]
          /\ txn' = [txn EXCEPT ![c].read = TRUE]
          /\ pc' = [pc EXCEPT ![c] = "prepare"]
          /\ UNCHANGED <<dbVars, fs, resp, fail>>
       \/ /\ rows = <<>>
          /\ txn' = [txn EXCEPT ![c].read = TRUE]
          /\ pc' = [pc EXCEPT ![c] = "insert_category"]
          /\ UNCHANGED <<dbVars, fs, resp, fail, categoryID>>
       \/ /\ Leave(c, "query", "io",
                   ParseError(resp[c], "Failed to query category from the database"))
          /\ UNCHANGED <<categoryID>>
    /\ UNCHANGED <<started, req, hashedImage, offset, readVars>>

\* tx.Exec("INSERT INTO categories (name) VALUES (?)") and result.LastInsertId
InsertCategory(c) ==
    /\ pc[c] = "insert_category"
    /\ \/ /\ CanWrite(c)
          /\ LET id == NextId(ViewCategories(c)) IN
             /\ txn' = [txn EXCEPT ![c].newCategories =
                           Append(@, [id |-> id, name |-> req[c].category])]
             /\ categoryID' = [categoryID EXCEPT ![c] = id]
          /\ writer' = c
          /\ pc' = [pc EXCEPT ![c] = "prepare"]
          /\ UNCHANGED <<categories, items, fs, resp, fail>>
       \/ /\ Leave(c, "insert_category", IF CanWrite(c) THEN "io" ELSE "conflict",
                   ParseError(resp[c], "Failed to insert category into database"))
          /\ UNCHANGED <<categoryID>>
    /\ UNCHANGED <<started, req, hashedImage, offset, readVars>>

\* tx.Prepare; a failure is reported and the handler goes on with no statement
PrepareInsert(c) ==
    /\ pc[c] = "prepare"
    /\ \/ /\ pc' = [pc EXCEPT ![c] = "exec"]
          /\ UNCHANGED <<resp>>
       \/ /\ pc' = [pc EXCEPT ![c] = "exec_nil"]
          /\ resp' = [resp EXCEPT ![c] =
                ParseError(@, "Failed to prepare statement for database insertion")]
    /\ UNCHANGED <<dbVars, fs, started, req, hashedImage, categoryID, txn, fail,
                   offset, readVars>>

\* statement.Exec(name, categoryID, hashedImage)
ExecInsert(c) ==
    /\ pc[c] = "exec"
    /\ \/ /\ CanWrite(c)
          /\ txn' = [txn EXCEPT ![c].newItems =
                        Append(@, [id |-> NextId(ViewItems(c)),
                                   name |-> req[c].name,
                                   category_id |-> categoryID[c],
                                   image_name |-> hashedImage[c]])]
          /\ writer' = c
          /\ pc' = [pc EXCEPT ![c] = "commit"]
          /\ UNCHANGED <<categories, items, fs, resp, fail>>
       \/ Leave(c, "exec", IF CanWrite(c) THEN "io" ELSE "conflict",
                HTTPErrorHandler(resp[c], "Error saving item to database"))
    /\ UNCHANGED <<started, req, hashedImage, categoryID, offset, readVars>>

\* statement.Exec on the nil statement a failed Prepare left: the handler
\* panics, its deferred calls run, and the Recover middleware finds the
\* response already written
ExecNil(c) ==
    /\ pc[c] = "exec_nil"
    /\ Leave(c, "prepare", "panic", HTTPErrorHandler(resp[c], "Internal Server Error"))
    /\ UNCHANGED <<started, req, hashedImage, categoryID, offset, readVars>>

\* tx.Commit, then the success response
Commit(c) ==
    /\ pc[c] = "commit"
    /\ \/ /\ categories' = AfterCommit(c)[1]
          /\ items' = AfterCommit(c)[2]
          /\ writer' = 0
          /\ txn' = [Overtaken(c) EXCEPT ![c] = NoTxn]
          /\ resp' = [resp EXCEPT ![c] =
                         Append(@, Body(StatusOK, "item received: ", req[c].name))]
          /\ pc' = [pc EXCEPT ![c] = "done"]
          /\ UNCHANGED <<fs, fail>>
       \/ Leave(c, "commit", "io", ParseError(resp[c], "Failed to commit transaction"))
    /\ UNCHANGED <<started, req, hashedImage, categoryID, offset, readVars>>

\* the steps of a call after its request has arrived
AddItemSteps(c) ==
    \/ HashImage(c)
    \/ CreateImage(c)
    \/ CopyImage(c)
    \/ Begin(c)
    \/ QueryCategory(c)
    \/ InsertCategory(c)
    \/ PrepareInsert(c)
    \/ ExecInsert(c)
    \/ ExecNil(c)
    \/ Commit(c)

AddItem(c) ==
    \/ \E r \in Requests : Receive(c, r)
    \/ AddItemSteps(c)

----------------------------------------------------------------------------
(* The read handlers *)

Reply(op, arg, status, message, body) ==
    [op |-> op, arg |-> arg, status |-> status, message |-> message, body |-> body]

NoReply == Reply("", <<>>, 0, "", <<>>)

\* the file names clients ask get-image for
ImageParams ==
    { HashedName(ImageA), HashedName(ImageB),
      <<"n", "o", "n", "e", ".", "j", "p", "g">>,
      <<"x", ".", "p", "n", "g">>,
      <<".", ".", "/", ".", ".", "/", "e", "t", "c", "/",
        "p", "a", "s", "s", "w", "d", ".", "j", "p", "g">> }

\* getImg's test of the path it built
ValidImagePath(imgPath) == HasSuffix(imgPath, DotJpg)

\* getImg without the fallback
StatWithoutDefault(imgPath) == imgPath

\* os.Stat(imgPath): a path that names no file gives way to the default image
StatOrDefault(imgPath) ==
    IF Exists(imgPath) THEN imgPath ELSE PathJoin(ImgDir, DefaultJpg)

\* getImg up to os.Stat: the path is built and tested, and a path that names
\* no file is replaced by the default image's
GetImgStat(param) ==
    /\ imgReq = <<>>
    /\ LET imgPath == PathJoin(ImgDir, param) IN
       \/ /\ ~ValidImagePath(imgPath)
          /\ reply' = Reply("getImg", param, StatusBadRequest,
                            "Image path does not end with .jpg", <<>>)
          /\ UNCHANGED <<imgReq>>
       \/ /\ ValidImagePath(imgPath)
          /\ imgReq' = <<[param |-> param, path |-> StatOrDefault(imgPath)]>>
          /\ reply' = NoReply
    /\ UNCHANGED <<dbVars, fs, started, pc, req, hashedImage, categoryID, txn,
                   resp, fail, offset>>

\* c.File(imgPath): the file's bytes, or echo's not-found error
GetImgFile ==
    /\ imgReq # <<>>
    /\ LET r == imgReq[1] IN
       reply' = IF Exists(r.path)
                THEN Reply("getImg", r.param, StatusOK, "", fs[r.path])
                ELSE Reply("getImg", r.param, StatusNotFound, "Not Found", <<>>)
    /\ imgReq' = <<>>
    /\ UNCHANGED <<dbVars, fs, started, pc, req, hashedImage, categoryID, txn,
                   resp, fail, offset>>

\* the Item getItemById scans a row into: name, category_id and image_name
\* are scanned into Name, Category and Image, and Id keeps its zero value
ScanItemById(row) ==
    [id |-> 0, name |-> row.name, category |-> Itoa(row.category_id),
     image_name |-> row.image_name]

\* the status parseError answers with
ParseErrorStatus == StatusInternalServerError

\* getItemById: SELECT name, category_id, image_name FROM items WHERE id = ?
GetItemById(id) ==
    /\ imgReq = <<>>
    /\ LET rows == SelectSeq(items, LAMBDA row : row.id = id) IN
       \/ /\ rows = <<>>
          /\ reply' = Reply("getItemById", id, ParseErrorStatus, "Item not found", <<>>)
       \/ /\ rows # <<>>
          /\ reply' = Reply("getItemById", id, StatusOK, "", <<ScanItemById(rows[1])>>)
       \/ reply' = Reply("getItemById", id, ParseErrorStatus,
                         "Failed to query item by ID", <<>>)
    /\ UNCHANGED <<dbVars, fs, started, pc, req, hashedImage, categoryID, txn,
                   resp, fail, offset, imgReq>>

\* one row of items JOIN categories ON items.category_id = categories.id
JoinRow(item, category) ==
    [id |-> item.id, name |-> item.name, category |-> category.name,
     image_name |-> item.image_name]

\* the join as a loop over items, each looking up its category
RECURSIVE JoinItemsOuter(_, _)
JoinItemsOuter(its, cats) ==
    IF its = <<>> THEN <<>>
    ELSE LET item == Head(its)
             matches == SelectSeq(cats, LAMBDA cat : cat.id = item.category_id)
         IN  [i \in 1 .. Len(matches) |-> JoinRow(item, matches[i])]
             \o JoinItemsOuter(Tail(its), cats)

\* the join as a loop over categories, each scanning items for its rows
RECURSIVE JoinCategoriesOuter(_, _)
JoinCategoriesOuter(its, cats) ==
    IF cats = <<>> THEN <<>>
    ELSE LET cat == Head(cats)
             matches == SelectSeq(its, LAMBDA item : item.category_id = cat.id)
         IN  [i \in 1 .. Len(matches) |-> JoinRow(matches[i], cat)]
             \o JoinCategoriesOuter(its, Tail(cats))

\* the row orders of the query of getItems, which has no ORDER BY: the order
\* is that of the join loop SQLite's planner chose
JoinResults(its, cats) ==
    {JoinItemsOuter(its, cats), JoinCategoriesOuter(its, cats)}

\* getItems: every row of the join is scanned into an Item and appended
GetItems ==
    /\ imgReq = <<>>
    /\ \/ \E rows \in JoinResults(items, categories) :
             reply' = Reply("getItems", <<>>, StatusOK, "", rows)
       \/ reply' = Reply("getItems", <<>>, ParseErrorStatus,
                         "Failed to get items from DB", <<>>)
    /\ UNCHANGED <<dbVars, fs, started, pc, req, hashedImage, categoryID, txn,
                   resp, fail, offset, imgReq>>

UpperCase ==
    <<"A", "B", "C", "D", "E", "F", "G", "H", "I", "J", "K", "L", "M",
      "N", "O", "P", "Q", "R", "S", "T", "U", "V", "W", "X", "Y", "Z">>
LowerCase ==
    <<"a", "b", "c", "d", "e", "f", "g", "h", "i", "j", "k", "l", "m",
      "n", "o", "p", "q", "r", "s", "t", "u", "v", "w", "x", "y", "z">>

\* SQLite's LIKE compares ASCII letters without regard to case
Fold(ch) ==
    IF \E i \in 1 .. Len(UpperCase) : UpperCase[i] = ch
    THEN LowerCase[CHOOSE i \in 1 .. Len(UpperCase) : UpperCase[i] = ch]
    ELSE ch

\* s LIKE pattern: % stands for any characters, none included, and _ for one
RECURSIVE Like(_, _)
Like(pattern, s) ==
    IF pattern = <<>> THEN s = <<>>
    ELSE IF Head(pattern) = "%"
    THEN Like(Tail(pattern), s) \/ (s # <<>> /\ Like(pattern, Tail(s)))
    ELSE /\ s # <<>>
         /\ Head(pattern) = "_" \/ Fold(Head(pattern)) = Fold(Head(s))
         /\ Like(Tail(pattern), Tail(s))

\* the keywords clients search for
Keywords ==
    { <<>>, <<"m", "u">>, <<"U">>, <<"c", "_", "p">> }

\* the rows of SELECT name, category_id FROM items WHERE name LIKE ?, each
\* as the map searchItems builds: the name, and the category id in decimal
SearchRows(keyword) ==
    LET matches == SelectSeq(items, LAMBDA row :
                       Like(<<"%">> \o keyword \o <<"%">>, row.name))
    IN  [i \in 1 .. Len(matches) |->
            [name |-> matches[i].name,
             category_id |-> Itoa(matches[i].category_id)]]

\* searchItems
SearchItems(keyword) ==
    /\ imgReq = <<>>
    /\ \/ reply' = Reply("searchItems", keyword, StatusOK, "", SearchRows(keyword))
       \/ \E message \in {"Failed to query items", "Failed to scan rows"} :
             reply' = Reply("searchItems", keyword, ParseErrorStatus, message, <<>>)
    /\ UNCHANGED <<dbVars, fs, started, pc, req, hashedImage, categoryID, txn,
                   resp, fail, offset, imgReq>>

----------------------------------------------------------------------------

\* the image directory as the repository ships it: the default image alone
DefaultBytes == <<0>>
ImageDirFiles == PathJoin(ImgDir, DefaultJpg) :> DefaultBytes

\* a file outside the image directory, where ../../etc/passwd.jpg leads
OutsidePath == PathJoin(ImgDir, <<".", ".", "/", ".", ".", "/", "e", "t", "c", "/",
                                  "p", "a", "s", "s", "w", "d", ".", "j", "p", "g">>)
OutsideBytes == <<9>>

\* the server has started: createTables has run on an empty database
InitWith(files) ==
    /\ categories = <<>>
    /\ items = <<>>
    /\ fs = files
    /\ writer = 0
    /\ started = 0
    /\ pc = [c \in Calls |-> "idle"]
    /\ req = [c \in Calls |-> NoRequest]
    /\ hashedImage = [c \in Calls |-> <<>>]
    /\ categoryID = [c \in Calls |-> 0]
    /\ txn = [c \in Calls |-> NoTxn]
    /\ resp = [c \in Calls |-> <<>>]
    /\ fail = [c \in Calls |-> NoFail]
    /\ offset = [c \in Calls |-> 0]
    /\ imgReq = <<>>
    /\ reply = NoReply

Init == InitWith(ImageDirFiles)

\* the same, on a machine that may hold the outside file
InitRead ==
    \E files \in {ImageDirFiles, ImageDirFiles @@ (OutsidePath :> OutsideBytes)} :
        InitWith(files)

Next == \E c \in Calls : AddItem(c)

Spec == Init /\ [][Next]_vars

\* the server when its clients send a request after the answer to the last
NextSeq ==
    \E c \in Calls :
        \/ /\ \A d \in Calls \ {c} : pc[d] \in {"idle", "done"}
           /\ \E r \in Requests : Receive(c, r)
        \/ AddItemSteps(c)

SpecSeq == Init /\ [][NextSeq]_vars

\* concurrent add-item calls of clients that send complete requests
NextFair ==
    \E c \in Calls :
        \/ \E r \in CompleteRequests : Receive(c, r)
        \/ AddItemSteps(c)

\* every request is served by a goroutine of its own, which the scheduler
\* keeps running: a handler that can take its next step takes it
SpecFair ==
    /\ Init
    /\ [][NextFair]_vars
    /\ \A c \in Calls : WF_vars(AddItemSteps(c))

\* the read handlers beside one add-item call at a time
NextRead ==
    \/ \E r \in CompleteRequests : Receive(1, r)
    \/ AddItemSteps(1)
    \/ \E param \in ImageParams : GetImgStat(param)
    \/ GetImgFile
    \/ \E id \in 1 .. Len(items) + 1 : GetItemById(id)
    \/ GetItems
    \/ \E keyword \in Keywords : SearchItems(keyword)

SpecRead == InitRead /\ [][NextRead]_vars

----------------------------------------------------------------------------
(* Properties *)

Done(c) == pc[c] = "done"
Succeeded(c) == Done(c) /\ fail[c] = NoFail

\* the call lost the race for the write lock at its category insert
LostCategoryRace(c) ==
    Done(c) /\ fail[c] = [step |-> "insert_category", kind |-> "conflict"]

\* the request lacks the name, the category or the image part
Incomplete(r) == r.name = <<>> \/ r.category = <<>> \/ ~r.hasImage

\* C1: in every committed database state, under every interleaving of
\* add-item calls, failed and rolled back ones included, every row of items
\* has the id of a row of categories as its category_id.
C1_ReferentialIntegrity ==
    \A i \in 1 .. Len(items) :
        \E j \in 1 .. Len(categories) : categories[j].id = items[i].category_id

\* two items under two categories are committed and a call has failed at its
\* commit and was rolled back
C1_Witness ==
    /\ Len(items) >= 2
    /\ Len(categories) >= 2
    /\ \E c \in Calls : Done(c) /\ fail[c].step = "commit"

\* C2: every call that resolves category N uses one and the same id, that of
\* the single row named N, and calls that raced to create the unseen N all
\* end up using it.
C2_AllRacersUseOneId ==
    \A c, d \in Calls :
        (/\ c # d
         /\ ~Incomplete(req[c]) /\ ~Incomplete(req[d])
         /\ req[c].category = req[d].category
         /\ Succeeded(d)
         /\ Succeeded(c) \/ LostCategoryRace(c))
        => /\ Len(RowsNamed(categories, req[c].category)) = 1
           /\ categoryID[c] = categoryID[d]
           /\ categoryID[c] = RowsNamed(categories, req[c].category)[1].id

\* C3: a call whose category insert failed because a racing call was creating
\* the same category still completes its add-item: the client gets the
\* success response and no error.
C3_RaceLoserSucceeds ==
    \A c \in Calls :
        (/\ LostCategoryRace(c)
         /\ ~Incomplete(req[c])
         /\ \E d \in Calls \ {c} :
               /\ req[d].category = req[c].category
               /\ txn[d].newCategories # <<>> \/ Succeeded(d))
        => resp[c] = <<Body(StatusOK, "item received: ", req[c].name)>>

\* C4: an add-item request that lacks name, category or image fails with a
\* client-error (BadInput) response before any side effect: it writes no
\* file, opens no transaction and commits nothing.
C4_MissingFieldRejected ==
    \A c \in Calls :
        (pc[c] # "idle" /\ Incomplete(req[c]) /\ fail[c].kind \in {"", "missing"}) =>
            /\ pc[c] \in {"image", "create", "done"}
            /\ Done(c) =>
                  /\ fail[c].step = "image"
                  /\ resp[c] # <<>>
                  /\ \A k \in 1 .. Len(resp[c]) : resp[c][k].status = StatusBadRequest

TablesChange == <<categories, items>>' # <<categories, items>>

\* the step is the successful commit of call c: its item row, and the
\* category row it created if any, join the committed tables together
CommittedBy(c) ==
    /\ pc[c] = "commit"
    /\ Succeeded(c)'
    /\ items' = Append(items, [id |-> NextId(items),
                               name |-> req[c].name,
                               category_id |-> categoryID[c],
                               image_name |-> hashedImage[c]])
    /\ \/ categories' = categories
       \/ categories' = Append(categories,
                               [id |-> categoryID[c], name |-> req[c].category])

\* every committed category row is referenced by a committed item row
NoOrphanCategory ==
    \A j \in 1 .. Len(categories) :
        \E i \in 1 .. Len(items) : items[i].category_id = categories[j].id

\* C5: add-item changes the database atomically: the committed tables change
\* only in the successful commit of a call, which adds that call's item row
\* together with its category row; a step in which a call fails leaves them
\* as they were, and no category row is committed without an item row.
C5_Atomic ==
    [][/\ TablesChange => \E c \in Calls : CommittedBy(c)
       /\ \A c \in Calls :
             (fail[c] = NoFail /\ fail'[c] # NoFail) => ~TablesChange
       /\ NoOrphanCategory']_vars

\* a call that had inserted a category row failed later and was rolled back:
\* no row of that name is committed
C5_Witness ==
    \E c \in Calls :
        /\ Done(c)
        /\ fail[c].step \in {"prepare", "exec", "commit"}
        /\ categoryID[c] # 0
        /\ RowsNamed(categories, req[c].category) = <<>>

HexValue(ch) == CHOOSE v \in 0 .. 15 : HexDigits[v + 1] = ch

\* name is the lowercase hex of digest, two digits a byte, followed by .jpg
IsDigestName(name, digest) ==
    /\ HasSuffix(name, DotJpg)
    /\ Len(name) = 2 * Len(digest) + Len(DotJpg)
    /\ \A k \in 1 .. Len(digest) :
          /\ \E v \in 1 .. 16 : HexDigits[v] = name[2 * k - 1]
          /\ \E v \in 1 .. 16 : HexDigits[v] = name[2 * k]
          /\ 16 * HexValue(name[2 * k - 1]) + HexValue(name[2 * k]) = digest[k]

\* the call's image is stored: getHashedImage has returned its file name
Stored(c) == hashedImage[c] # <<>> /\ pc[c] \notin {"create", "copy"} /\ fail[c].step # "create" /\ fail[c].step # "copy"

\* C6: when a store of bytes B completes, the file name it returns is the
\* lowercase hex digest of B followed by .jpg and the file of that name holds
\* exactly B; it is the name every other store of B returned, and a store of
\* bytes with another digest returned another name.
C6_ContentAddressed ==
    [][\A c \in Calls :
          (pc[c] = "copy" /\ pc'[c] = "begin") =>
             /\ IsDigestName(hashedImage'[c], Sha256Sum(req[c].image))
             /\ fs'[PathJoin(ImgDir, hashedImage'[c])] = req[c].image
             /\ \A d \in Calls \ {c} :
                   Stored(d) =>
                      /\ req[d].image = req[c].image
                            => hashedImage[d] = hashedImage'[c]
                      /\ Sha256Sum(req[d].image) # Sha256Sum(req[c].image)
                            => hashedImage[d] # hashedImage'[c]]_vars

\* bytes B were stored by a call that is over, and a second store of B has
\* just completed under the same name with the file holding B
C6_Witness ==
    \E c, d \in Calls :
        /\ c # d
        /\ Succeeded(c)
        /\ pc[d] = "begin"
        /\ req[d].image = req[c].image
        /\ hashedImage[d] = hashedImage[c]
        /\ fs[ImagePath(d)] = req[d].image

DotDot == <<".", ".">>

\* the name breaks the image-name contract: it does not end in .jpg, or it
\* is a path that leaves the image directory
InvalidName(name) ==
    \/ ~HasSuffix(name, DotJpg)
    \/ \E k \in 1 .. Len(SplitPath(name, <<>>)) : SplitPath(name, <<>>)[k] = DotDot

\* C7: get-image answers every file name that breaks the image-name
\* contract, x.png and ../../etc/passwd.jpg alike, with the InvalidName
\* client error and serves no file for it.
C7_InvalidNamesRejected ==
    (reply.op = "getImg" /\ InvalidName(reply.arg)) =>
        /\ reply.status = StatusBadRequest
        /\ reply.body = <<>>

\* C8: get-image for a name that ends in .jpg and names no existing file
\* serves the bytes of the default image with a success status.
C8_FallbackServed ==
    (/\ reply.op = "getImg"
     /\ HasSuffix(reply.arg, DotJpg)
     /\ ~Exists(PathJoin(ImgDir, reply.arg)))
    => /\ reply.status = StatusOK
       /\ reply.body = DefaultBytes

\* with uploads in the image directory, a request for a .jpg name that is no
\* file there has been answered with the default image
C8_Witness ==
    /\ reply.op = "getImg"
    /\ reply.arg = <<"n", "o", "n", "e", ".", "j", "p", "g">>
    /\ reply.status = StatusOK
    /\ reply.body = DefaultBytes
    /\ Exists(PathJoin(ImgDir, HashedName(ImageA)))
    /\ Exists(PathJoin(ImgDir, HashedName(ImageB)))

\* C9: get-item for an id that matches no row fails with a not-found outcome,
\* a client error and not the internal failure a storage error gives, and for
\* an id that matches a row it returns that row's item.
C9_NotFoundDistinct ==
    reply.op = "getItemById" =>
        LET rows == SelectSeq(items, LAMBDA row : row.id = reply.arg) IN
        /\ rows = <<>> => reply.status = StatusNotFound
        /\ (rows # <<>> /\ reply.status = StatusOK) =>
              /\ reply.body[1].name = rows[1].name
              /\ reply.body[1].image_name = rows[1].image_name

\* the committed item rows as list-items is to return them: in id order, each
\* with the name of its category
RECURSIVE Listed(_)
Listed(its) ==
    IF its = <<>> THEN <<>>
    ELSE LET item == Head(its)
             cat == CHOOSE row \in {categories[j] : j \in 1 .. Len(categories)} :
                        row.id = item.category_id
         IN  <<[id |-> item.id, name |-> item.name, category |-> cat.name,
                image_name |-> item.image_name]>> \o Listed(Tail(its))

Contains(s, k) ==
    \E i \in 0 .. Len(s) - Len(k) :
        \A j \in 1 .. Len(k) : Fold(s[i + j]) = Fold(k[j])

\* C11: search-items with keyword K returns one (name, category) pair for
\* exactly the committed items whose name contains K, the category being the
\* category name the client submitted with the item; with the empty keyword
\* it returns a pair for every committed item.
C11_SearchReturnsNameAndCategory ==
    [][(reply' # reply /\ reply'.op = "searchItems" /\ reply'.status = StatusOK)
          => LET found == SelectSeq(items, LAMBDA row : Contains(row.name, reply'.arg))
                 expected == Listed(found)
             IN  /\ Len(reply'.body) = Len(expected)
                 /\ \A i \in 1 .. Len(expected) :
                       /\ reply'.body[i].name = expected[i].name
                       /\ reply'.body[i].category_id = expected[i].category]_vars

\* the positions of the committed item rows that call c's insert wrote
ItemRowsOf(c) ==
    {i \in 1 .. Len(items) :
        /\ items[i].name = req[c].name
        /\ items[i].category_id = categoryID[c]
        /\ items[i].image_name = hashedImage[c]}

\* C12: after two successful add-item calls in sequence with identical image
\* bytes and the same category name, table categories holds exactly one row
\* of that name, the two item rows have distinct ids, the same category_id
\* and the same image_name, and one file of the image directory holds that
\* content.
C12_SecondItemSharesCategoryAndImage ==
    \A c, d \in Calls :
        (/\ c # d
         /\ Succeeded(c) /\ Succeeded(d)
         /\ req[c].image = req[d].image
         /\ req[c].category = req[d].category)
        => /\ Cardinality({j \in 1 .. Len(categories) :
                              categories[j].name = req[c].category}) = 1
           /\ \E i \in ItemRowsOf(c), j \in ItemRowsOf(d) :
                 /\ i # j
                 /\ items[i].id # items[j].id
                 /\ items[i].category_id = items[j].category_id
                 /\ items[i].image_name = items[j].image_name
                 /\ \E k \in 1 .. Len(categories) :
                       /\ categories[k].id = items[i].category_id
                       /\ categories[k].name = req[c].category
           /\ {p \in DOMAIN fs : fs[p] = req[c].image} = {ImagePath(c)}

\* two calls with the same image and category have succeeded one after the
\* other, the second after the first had committed
C12_Witness ==
    \E c, d \in Calls :
        /\ c # d
        /\ Succeeded(c) /\ Succeeded(d)
        /\ req[c].image = req[d].image
        /\ req[c].category = req[d].category
        /\ Len(items) = 2
        /\ Len(categories) = 1

\* the client of call c has been sent the success response
SuccessSent(c) ==
    \E k \in 1 .. Len(resp[c]) : resp[c][k].status = StatusOK

\* every list-items from this state on returns the item of call c under the
\* category the client submitted
ListedFor(c) ==
    \A rows \in JoinResults(items, categories) :
        \E k \in 1 .. Len(rows) :
            /\ rows[k].name = req[c].name
            /\ rows[k].category = req[c].category
            /\ rows[k].image_name = hashedImage[c]

\* C13: the success response 'item received: <name>' is sent only after the
\* call's transaction has committed: when the client has it, the item row
\* and its category row are committed and list-items returns the item from
\* then on, committed rows never going away; and a call that ended without
\* its commit has sent a failure and no success.
C13_SuccessOnlyAfterCommit ==
    /\ [](\A c \in Calls :
            /\ SuccessSent(c) =>
                  /\ Succeeded(c)
                  /\ resp[c] = <<Body(StatusOK, "item received: ", req[c].name)>>
                  /\ ItemRowsOf(c) # {}
                  /\ ListedFor(c)
            /\ (Done(c) /\ fail[c] # NoFail) =>
                  /\ resp[c] # <<>>
                  /\ \A k \in 1 .. Len(resp[c]) :
                        resp[c][k].status = StatusInternalServerError)
    /\ [][/\ Len(items') >= Len(items)
          /\ Len(categories') >= Len(categories)
          /\ \A i \in 1 .. Len(items) : items'[i] = items[i]
          /\ \A j \in 1 .. Len(categories) : categories'[j] = categories[j]]_vars

\* one call has committed and sent the success response, another has failed
\* at its commit and sent a failure
C13_Witness ==
    \E c, d \in Calls :
        /\ SuccessSent(c)
        /\ ItemRowsOf(c) # {}
        /\ Done(d)
        /\ fail[d].step = "commit"
        /\ resp[d] # <<>>

\* call c has reported a failure to its client
FailureReported(c) ==
    \E k \in 1 .. Len(resp[c]) : resp[c][k].status = StatusInternalServerError

\* C14: no step of an add-item call runs after a step of that call has
\* reported a failure: the report comes with the return from the handler, its
\* rollback included, and the call takes no step after it.
C14_NoStepAfterReportedFailure ==
    [][\A c \in Calls :
          (FailureReported(c) /\ ~Done(c)) =>
              <<pc[c], hashedImage[c], categoryID[c], resp[c], fail[c]>>'
                  = <<pc[c], hashedImage[c], categoryID[c], resp[c], fail[c]>>]_vars

\* the state of the add-item state machine call c is in
CallState(c) ==
    CASE pc[c] = "idle" -> "Idle"
      [] pc[c] \in {"image", "create", "copy"} -> "Received"
      [] pc[c] \in {"begin", "query", "insert_category"} -> "ImagePersisted"
      [] pc[c] \in {"prepare", "exec", "exec_nil"} -> "CategoryResolved"
      [] pc[c] = "commit" -> "ItemInserted"
      [] pc[c] = "done" /\ fail[c] = NoFail -> "Committed"
      [] pc[c] = "done" /\ fail[c].step \in {"image", "create", "copy", "begin"} -> "Failed"
      [] OTHER -> "RolledBack"

\* the transitions of the state machine, a new request taking the place of
\* one that is over
StateSteps ==
    { <<"Idle", "Received">>, <<"Committed", "Received">>,
      <<"RolledBack", "Received">>, <<"Failed", "Received">>,
      <<"Received", "ImagePersisted">>, <<"Received", "Failed">>,
      <<"ImagePersisted", "CategoryResolved">>, <<"ImagePersisted", "Failed">>,
      <<"ImagePersisted", "RolledBack">>,
      <<"CategoryResolved", "ItemInserted">>, <<"CategoryResolved", "RolledBack">>,
      <<"ItemInserted", "Committed">>, <<"ItemInserted", "RolledBack">> }

\* what call c has done when it enters a state
Entered(c) ==
    /\ CallState(c)' = "ImagePersisted" => Exists(ImagePath(c))'
    /\ CallState(c)' = "CategoryResolved" =>
          /\ txn'[c].open
          /\ \E j \in 1 .. Len(ViewCategories(c)') :
                /\ ViewCategories(c)'[j].id = categoryID'[c]
                /\ ViewCategories(c)'[j].name = req[c].category
    /\ CallState(c)' = "ItemInserted" =>
          /\ txn[c].open /\ txn'[c].open
          /\ \E i \in 1 .. Len(txn'[c].newItems) :
                txn'[c].newItems[i].category_id = categoryID[c]
    /\ CallState(c)' = "Committed" => ItemRowsOf(c)' # {}
    /\ CallState(c)' = "RolledBack" => txn[c].open
    /\ CallState(c)' = "Failed" => ~txn[c].open

\* C15: every add-item call steps through Received, ImagePersisted,
\* CategoryResolved, ItemInserted, Committed in that order without skipping a
\* state, enters RolledBack only with its transaction open, and in the end is
\* Committed, RolledBack or failed before its transaction: a call that is
\* over holds no open transaction and no write lock.
C15_StateMachine ==
    /\ [][\A c \in Calls :
             CallState(c)' # CallState(c) =>
                 /\ <<CallState(c), CallState(c)'>> \in StateSteps
                 /\ Entered(c)]_vars
    /\ [](\A c \in Calls : pc[c] \in {"idle", "done"} => (~txn[c].open /\ writer # c))
    /\ \A c \in Calls :
          (pc[c] \notin {"idle", "done"})
              ~> (CallState(c) \in {"Committed", "RolledBack", "Failed"})

\* one call is over in each of the three ways an add-item call ends
C15_Witness ==
    /\ \E c \in Calls : CallState(c) = "RolledBack"
    /\ \E c \in Calls : CallState(c) \in {"Committed", "Failed"}
    /\ started = MaxRequests

\* the positions of addItem from s.db.Begin on
DatabaseSteps ==
    {"begin", "query", "insert_category", "prepare", "exec", "exec_nil", "commit"}

\* C16: the image file is fully written before the call opens its database
\* transaction, and no step from s.db.Begin on, a failing one with its
\* rollback included, changes the image directory: the file the call wrote
\* is there with the upload's bytes when the call fails.
C16_ImageKeptOnRollback ==
    [][\A c \in Calls :
          /\ (~txn[c].open /\ txn'[c].open) =>
                /\ pc[c] = "begin"
                /\ offset[c] = Len(req[c].image)
                /\ Exists(ImagePath(c))
                /\ fs[ImagePath(c)] = req[c].image
          /\ (pc[c] \in DatabaseSteps /\ pc'[c] # pc[c]) =>
                /\ fs' = fs
                /\ fs'[ImagePath(c)] = req[c].image]_vars

\* a call whose item insert or commit failed was rolled back, and the file
\* it wrote holds the upload
C16_Witness ==
    \E c \in Calls :
        /\ Done(c)
        /\ fail[c].step \in {"exec", "commit"}
        /\ items = <<>>
        /\ Exists(ImagePath(c))
        /\ fs[ImagePath(c)] = req[c].image

\* C17: when two add-item calls store identical bytes B at the same time,
\* however their creates (truncations) and the chunks of their copies
\* interleave, both get the same file name and, once both stores have
\* finished, the file of that name holds exactly B.
C17_ConcurrentStoresCommute ==
    \A c, d \in Calls :
        (/\ c # d
         /\ Stored(c) /\ Stored(d)
         /\ req[c].image = req[d].image)
        => /\ hashedImage[c] = hashedImage[d]
           /\ fs[ImagePath(c)] = req[c].image

\* two calls in their handlers at once have both finished storing the same
\* bytes, of more than one chunk
C17_Witness ==
    \E c, d \in Calls :
        /\ c # d
        /\ pc[c] = "begin" /\ pc[d] = "begin"
        /\ req[c].image = req[d].image
        /\ Len(req[c].image) > 1
        /\ fs[ImagePath(c)] = req[c].image

\* a committed item row carries the file name: the store that returned it
\* has completed
StoreCompleted(name) ==
    \E i \in 1 .. Len(items) : items[i].image_name = name

\* C18: once a store of bytes B has completed and returned file name F, a
\* get-image(F) serves exactly B, also while another add-item call that
\* stores the same B is re-creating and re-writing F: no reader is served F
\* empty, truncated or replaced by the default image.
C18_ReadersSeeWholeImage ==
    [][/\ (/\ imgReq = <<>>
           /\ imgReq' # <<>>
           /\ StoreCompleted(imgReq'[1].param))
          => imgReq'[1].path = PathJoin(ImgDir, imgReq'[1].param)
       /\ (/\ imgReq # <<>>
           /\ imgReq' = <<>>
           /\ StoreCompleted(imgReq[1].param)
           /\ imgReq[1].path = PathJoin(ImgDir, imgReq[1].param))
          => /\ reply'.status = StatusOK
             /\ HashedName(reply'.body) = imgReq[1].param]_vars

\* C19: every add-item request gets exactly one response on every path: no
\* call writes a second body after a first, neither two failure bodies nor
\* a failure body followed by the success body, and a call that is over has
\* written one.
C19_ExactlyOneResponse ==
    \A c \in Calls :
        /\ Len(resp[c]) <= 1
        /\ Done(c) => Len(resp[c]) = 1

\* C20: for every committed item id i, the item get-item(i) returns is the
\* entry for i that list-items returns in the same state: the same id, name,
\* category name and image_name.
C20_GetItemAgreesWithList ==
    [][(reply' # reply /\ reply'.op = "getItemById" /\ reply'.status = StatusOK)
          => \A rows \in JoinResults(items, categories) :
                \E k \in 1 .. Len(rows) :
                    /\ rows[k].id = reply'.arg
                    /\ reply'.body[1].id = rows[k].id
                    /\ reply'.body[1].name = rows[k].name
                    /\ reply'.body[1].category = rows[k].category
                    /\ reply'.body[1].image_name = rows[k].image_name]_vars

====
